---- MODULE Spec2Model ----
(***************************************************************************)
(* StatisticalPolicy: online ridge regression per arm with UCB and linear  *)
(* Thompson-sampling exploration                                           *)
(* (src/experiments/classification/policies/statistical.py).               *)
(*                                                                         *)
(* float64 values are modelled in exact arithmetic: a number is a rational *)
(* <<num, den>> in lowest terms with den > 0.  Arrays keep the indices of  *)
(* the source: a length-n axis is the domain 0..n-1.                       *)
(***************************************************************************)
EXTENDS Integers, Sequences, FiniteSets, TLC

TYPE_UCB == 0
TYPE_THOMPSON == 1

(* ---------------------------------------------------------------- bounds *)
\* update calls in one run
MaxUpdates == 2
\* policy instances alive in one run (the original and its deep copies)
MaxPolicies == 2

(* ------------------------------------------------- exact float arithmetic *)
Abs(n) == IF n < 0 THEN -n ELSE n

RECURSIVE Gcd(_, _)
Gcd(m, n) == IF n = 0 THEN m ELSE Gcd(n, m % n)

Rat(n, d) ==
    LET g == Gcd(Abs(n), Abs(d))
        s == IF d < 0 THEN -1 ELSE 1
    IN  <<(s * n) \div g, (s * d) \div g>>

Zero == <<0, 1>>
One == <<1, 1>>
RInt(n) == <<n, 1>>
RNeg(p) == <<-p[1], p[2]>>
\* the short cuts (a zero or unit operand, two integers) skip the reduction,
\* which they do not need
RAdd(p, q) ==
    IF p[1] = 0 THEN q
    ELSE IF q[1] = 0 THEN p
    ELSE IF p[2] = 1 /\ q[2] = 1 THEN <<p[1] + q[1], 1>>
    ELSE Rat(p[1] * q[2] + q[1] * p[2], p[2] * q[2])
RSub(p, q) == RAdd(p, RNeg(q))
RMul(p, q) ==
    IF p[1] = 0 \/ q[1] = 0 THEN Zero
    ELSE IF p = One THEN q
    ELSE IF q = One THEN p
    ELSE Rat(p[1] * q[1], p[2] * q[2])
RDiv(p, q) == IF q = One THEN p ELSE Rat(p[1] * q[2], p[2] * q[1])
RLe(p, q) == p[1] * q[2] <= q[1] * p[2]
RLt(p, q) == p[1] * q[2] < q[1] * p[2]

RECURSIVE RSum(_, _)
\* f[0] + ... + f[n-1]
RSum(f, n) == IF n = 0 THEN Zero ELSE RAdd(RSum(f, n - 1), f[n - 1])

Lcm(a, b) == (a * b) \div Gcd(a, b)

(* ------------------------------------------------------------ numpy kernels *)
Idx(n) == 0 .. (n - 1)

\* np.zeros(n), np.zeros((m, n))
Zeros1(n) == [i \in Idx(n) |-> Zero]
Zeros2(m, n) == [i \in Idx(m) |-> Zeros1(n)]
\* np.identity(d)
Identity(d) == [i \in Idx(d) |-> [j \in Idx(d) |-> IF i = j THEN One ELSE Zero]]

\* matrix * scalar, matrix / scalar, elementwise
MatScale(M, c, d) == [i \in Idx(d) |-> [j \in Idx(d) |-> RMul(M[i][j], c)]]
MatDivS(M, c, d) == [i \in Idx(d) |-> [j \in Idx(d) |-> RDiv(M[i][j], c)]]
MatAdd(M, N, d) == [i \in Idx(d) |-> [j \in Idx(d) |-> RAdd(M[i][j], N[i][j])]]
MatSub(M, N, d) == [i \in Idx(d) |-> [j \in Idx(d) |-> RSub(M[i][j], N[i][j])]]
\* u . v for two vectors of length n
Dot(u, v, n) == RSum([i \in Idx(n) |-> RMul(u[i], v[i])], n)
\* M @ v for a d x d matrix and a d-vector
MatVec(M, v, d) == [i \in Idx(d) |-> Dot(M[i], v, d)]
\* v.T @ M
VecMat(v, M, d) == [j \in Idx(d) |-> RSum([i \in Idx(d) |-> RMul(v[i], M[i][j])], d)]
\* x2 @ x2.T, the outer product of two column vectors
Outer(u, v, d) == [i \in Idx(d) |-> [j \in Idx(d) |-> RMul(u[i], v[j])]]
MatMul(M, N, d) ==
    [i \in Idx(d) |-> [j \in Idx(d) |->
        RSum([m \in Idx(d) |-> RMul(M[i][m], N[m][j])], d)]]

(* ------------------------------------------------- np.linalg.cholesky *)
(* A real lower-triangular factor L is held exactly as [C, D] with         *)
(* L[i][j] = C[i][j] * sqrt(D[j]): every entry of column j of a Cholesky   *)
(* factor is a rational multiple of the square root of the j-th pivot.     *)
ZeroFactor(d) == [C |-> Zeros2(d, d), D |-> Zeros1(d)]

\* the pivot of column c: M[c][c] - sum_{m<c} L[c][m]^2
ChoPivot(M, F, c) ==
    RSub(M[c][c],
         RSum([m \in Idx(c) |-> RMul(RMul(F.C[c][m], F.C[c][m]), F.D[m])], c))

\* the entry below the diagonal: (M[i][c] - sum_{m<c} L[i][m] L[c][m]) / L[c][c]
ChoBelow(M, F, i, c, piv) ==
    RDiv(RSub(M[i][c],
              RSum([m \in Idx(c) |-> RMul(RMul(F.C[i][m], F.C[c][m]), F.D[m])], c)),
         piv)

RECURSIVE ChoCols(_, _, _)
\* columns 0..j-1 of the factor of M; ok = FALSE when a pivot is not positive
ChoCols(M, d, j) ==
    IF j = 0 THEN [F |-> ZeroFactor(d), ok |-> TRUE]
    ELSE LET prev == ChoCols(M, d, j - 1)
             c == j - 1
             piv == ChoPivot(M, prev.F, c)
         IN  IF ~prev.ok \/ RLe(piv, Zero) THEN [prev EXCEPT !.ok = FALSE]
             ELSE [F |-> [C |-> [i \in Idx(d) |-> [jj \in Idx(d) |->
                                   IF jj # c THEN prev.F.C[i][jj]
                                   ELSE IF i < c THEN Zero
                                   ELSE IF i = c THEN One
                                   ELSE ChoBelow(M, prev.F, i, c, piv)]],
                          D |-> [prev.F.D EXCEPT ![c] = piv]],
                   ok |-> TRUE]

\* np.linalg.cholesky(M): [F |-> factor, ok |-> FALSE on LinAlgError]
Cholesky(M, d) == ChoCols(M, d, d)

\* L @ L.T for a factor held as [C, D]
FactorSquare(F, d) ==
    [i \in Idx(d) |-> [j \in Idx(d) |->
        RSum([m \in Idx(d) |-> RMul(RMul(F.C[i][m], F.C[j][m]), F.D[m])], d)]]

\* L.T @ x is the zero vector
FactorKills(F, x, d) ==
    \A j \in Idx(d) :
        F.D[j] = Zero \/ RSum([i \in Idx(d) |-> RMul(F.C[i][j], x[i])], d) = Zero

(* --------------------------------------------- scores p + sqrt(s), s >= 0 *)
\* p1 + sqrt(s1) >= p2 + sqrt(s2), decided by squaring over the integers
ScoreGE(p1, s1, p2, s2) ==
    LET dp == RSub(p1, p2)
        n == Lcm(Lcm(dp[2], s1[2]), s2[2])
        dI == dp[1] * (n \div dp[2])
        u == s1[1] * n * (n \div s1[2])
        v == s2[1] * n * (n \div s2[2])
        e == v - u - dI * dI
        f == u - v - dI * dI
    IN  IF dI >= 0 THEN e <= 0 \/ 4 * dI * dI * u >= e * e
        ELSE f >= 0 /\ f * f >= 4 * dI * dI * v

(* ------------------------------------------------------------------ state *)
VARIABLES
    policies,   \* the policy instances: scalars by value, arrays by heap address
    heap,       \* the array buffers, in allocation order
    nupdates,   \* update calls made so far
    oob,        \* a store has landed outside the array it indexed
    last        \* the last call: operation, instance, arguments, outcome

vars == <<policies, heap, nupdates, oob, last>>

\* the None default of an optional array argument
None == 0

(* -------------------------------------------------------------- inputs *)
\* (k, d) of the policies built
Shapes == {<<1, 1>>, <<2, 2>>, <<2, 1>>, <<1, 2>>}
L2Vals == {One, RInt(2)}
AlphaVals == {One}
DrawTypes == {TYPE_UCB, TYPE_THOMPSON, TYPE_THOMPSON + 1}
XVals == {Zero, One}
Contexts(d) == [Idx(d) -> XVals]
Rewards == {Zero, One}

(* ------------------------------------------------------- call outcomes *)
ReturnNone == [kind |-> "none", exc |-> "", num |-> 0]
ReturnAction(i) == [kind |-> "action", exc |-> "", num |-> i]
ReturnFloat(n) == [kind |-> "float", exc |-> "", num |-> n]
\* a new policy instance is returned
ReturnPolicy == [kind |-> "policy", exc |-> "", num |-> 0]
Raise(e) == [kind |-> "raise", exc |-> e, num |-> 0]

(* ---------------------------------------------------------- construction *)
\* StatisticalPolicy(k, d, l2, alpha, w, b, A, A_inv, cho, recompute, draw_type)
\* on heap h: an array argument is None or the address of the caller's buffer
StatisticalPolicy(k, d, l2, alpha, w, b, A, A_inv, cho, recompute, draw_type, h) ==
    LET h1 == IF w = None THEN Append(h, Zeros2(d, k)) ELSE h
        w1 == IF w = None THEN Len(h1) ELSE w
        h2 == IF b = None THEN Append(h1, Zeros2(d, k)) ELSE h1
        b1 == IF b = None THEN Len(h2) ELSE b
        h3 == IF A = None
              THEN Append(h2, [i \in Idx(k) |-> MatScale(Identity(d), l2, d)]) ELSE h2
        A1 == IF A = None THEN Len(h3) ELSE A
        h4 == IF A_inv = None
              THEN Append(h3, [i \in Idx(k) |-> MatDivS(Identity(d), l2, d)]) ELSE h3
        Ai1 == IF A_inv = None THEN Len(h4) ELSE A_inv
        h5 == IF cho = None THEN Append(h4, [i \in Idx(k) |-> ZeroFactor(d)]) ELSE h4
        c1 == IF cho = None THEN Len(h5) ELSE cho
        h6 == IF recompute = None THEN Append(h5, [i \in Idx(k) |-> FALSE]) ELSE h5
        r1 == IF recompute = None THEN Len(h6) ELSE recompute
    IN  [out |-> [k |-> k, d |-> d, l2 |-> l2, alpha |-> alpha, w |-> w1, b |-> b1,
                  A |-> A1, A_inv |-> Ai1, cho |-> c1, recompute |-> r1,
                  draw_type |-> draw_type],
         heap |-> h6]

\* the fields of instance p with its arrays read from heap h
Self(p, h) ==
    [k |-> p.k, d |-> p.d, l2 |-> p.l2, alpha |-> p.alpha, w |-> h[p.w], b |-> h[p.b],
     A |-> h[p.A], A_inv |-> h[p.A_inv], cho |-> h[p.cho],
     recompute |-> h[p.recompute], draw_type |-> p.draw_type]

\* heap h after the methods of instance p left its arrays as in self
Stored(p, self, h) ==
    [h EXCEPT ![p.w] = self.w, ![p.b] = self.b, ![p.A] = self.A,
              ![p.A_inv] = self.A_inv, ![p.cho] = self.cho,
              ![p.recompute] = self.recompute]

\* the addresses instance p holds
Buffers(p) == {p.w, p.b, p.A, p.A_inv, p.cho, p.recompute}

(* ------------------------------------------------------------------ update *)
\* b[a, :] + xd * r under numpy broadcasting: the row has length k, xd length d
BroadcastAdd(row, xr, k, d) ==
    [j \in Idx(k) |-> RAdd(row[j], IF d = 1 THEN xr[0] ELSE xr[j])]

\* ((A_inv @ x2) @ x2.T) @ A_inv
ShermanNum(Ainv, x, d) == MatMul(Outer(MatVec(Ainv, x, d), x, d), Ainv, d)
\* ((x2.T @ A_inv) @ x2) + 1.0
ShermanDen(Ainv, x, d) == RAdd(Dot(VecMat(x, Ainv, d), x, d), One)

\* update(x, a, r).  self.b has d rows, so b[a, :] with a >= d is out of range:
\* IndexError in a bounds-checked build, else an unchecked access outside
\* the buffer (the store leaves every array of the policy as it was).
update(self, x, a, r, boundscheck) ==
    LET d == self.d
        k == self.k
        xr == [i \in Idx(d) |-> RMul(x[i], r)]
        s42 == [self EXCEPT !.A[a] = MatAdd(@, Outer(x, x, d), d)]
        inRange == a \in Idx(d)
        s43 == IF inRange THEN [s42 EXCEPT !.b[a] = BroadcastAdd(@, xr, k, d)] ELSE s42
        s46 == [s43 EXCEPT !.A_inv[a] =
                   MatSub(@, MatDivS(ShermanNum(@, x, d), ShermanDen(@, x, d), d), d)]
        s47 == [s46 EXCEPT !.w[a] = MatVec(s46.A_inv[a], s46.b[a], d)]
        s48 == [s47 EXCEPT !.recompute[a] = TRUE]
    IN  IF ~inRange /\ boundscheck
        THEN [self |-> s42, ret |-> Raise("IndexError"), oob |-> FALSE]
        ELSE IF inRange /\ k # d /\ d # 1
        THEN [self |-> s42, ret |-> Raise("ValueError"), oob |-> FALSE]
        ELSE IF k # d
        THEN [self |-> s46, ret |-> Raise("ValueError"), oob |-> ~inRange]
        ELSE [self |-> s48, ret |-> ReturnNone, oob |-> FALSE]

(* ------------------------------------------------------- draw, probability *)
\* _bound(x)[i]^2 = x2.T @ A_inv[i] @ x2, the radicand of the np.sqrt
_bound(self, x) == [i \in Idx(self.k) |-> Dot(VecMat(x, self.A_inv[i], self.d), x, self.d)]

RECURSIVE ChoLoop(_, _)
\* the first n iterations of the loop of _update_cholesky
ChoLoop(self, n) ==
    IF n = 0 THEN [self |-> self, ret |-> ReturnNone]
    ELSE LET prev == ChoLoop(self, n - 1)
             i == n - 1
             fac == Cholesky(prev.self.A_inv[i], self.d)
         IN  IF prev.ret.kind = "raise" \/ ~prev.self.recompute[i] THEN prev
             ELSE IF ~fac.ok THEN [prev EXCEPT !.ret = Raise("LinAlgError")]
             ELSE [prev EXCEPT !.self.cho[i] = fac.F, !.self.recompute[i] = FALSE]

_update_cholesky(self) == ChoLoop(self, self.k)

\* score i (p + sqrt(s)) of sc is at least score j
ScoreAtLeast(sc, i, j) == ScoreGE(sc[i + 1].p, sc[i + 1].s, sc[j + 1].p, sc[j + 1].s)

\* util.argmax of the scores sc over the arms in S: the first arm whose score
\* no arm exceeds
argmax(S, sc) ==
    CHOOSE i \in S : \A j \in S :
        ScoreAtLeast(sc, i, j) /\ (j < i => ~ScoreAtLeast(sc, j, i))

RECURSIVE UcbScores(_, _, _)
\* the first n entries of np.dot(self.w, x) + self.alpha * self._bound(x),
\* entry i held as [p, s] for p + sqrt(s) (alpha >= 0)
UcbScores(self, x, n) ==
    IF n = 0 THEN <<>>
    ELSE Append(UcbScores(self, x, n - 1),
                [p |-> Dot(self.w[n - 1], x, self.d),
                 s |-> RMul(RMul(self.alpha, self.alpha), _bound(self, x)[n - 1])])

\* argmax(np.dot(self.w, x) + self.alpha * self._bound(x)); np.dot of the
\* (d, k) array w with the d-vector x needs k = d
_draw_ucb(self, x) ==
    IF self.k # self.d THEN Raise("ValueError")
    ELSE ReturnAction(argmax(Idx(self.k), UcbScores(self, x, self.k)))

\* The values argmax(s) takes with positive probability over the standard
\* normal u, s[i] = (w[i, :] + cho[i] @ u[i, :]) . x: an arm whose cho[i].T @ x
\* is not zero has an unbounded score and can win; among the others the
\* sample does not matter and the largest w[i, :] . x can win.
ThompsonSupport(self, x) ==
    LET d == self.d
        free == {i \in Idx(self.k) : ~FactorKills(self.cho[i], x, d)}
        fixed == Idx(self.k) \ free
        sc == [i \in 1..self.k |-> [p |-> Dot(self.w[i - 1], x, d), s |-> Zero]]
    IN  free \cup (IF fixed = {} THEN {} ELSE {argmax(fixed, sc)})

\* _draw_thompson(x): [self, rets], rets the outcomes the sample can give
_draw_thompson(self, x) ==
    LET c == _update_cholesky(self)
    IN  IF c.ret.kind = "raise" THEN [self |-> c.self, rets |-> {c.ret}]
        ELSE IF self.k # self.d THEN [self |-> c.self, rets |-> {Raise("ValueError")}]
        ELSE [self |-> c.self,
              rets |-> {ReturnAction(i) : i \in ThompsonSupport(c.self, x)}]

\* draw with the UCB branch refreshing the Cholesky cache as the Thompson one does
draw_refreshing(self, x) ==
    IF self.draw_type = TYPE_UCB
    THEN LET c == _update_cholesky(self)
         IN  [self |-> c.self, rets |-> {_draw_ucb(c.self, x)}]
    ELSE IF self.draw_type = TYPE_THOMPSON THEN _draw_thompson(self, x)
    ELSE [self |-> self, rets |-> {Raise("ValueError: Unknown draw type")}]

draw(self, x) ==
    IF self.draw_type = TYPE_UCB THEN [self |-> self, rets |-> {_draw_ucb(self, x)}]
    ELSE IF self.draw_type = TYPE_THOMPSON THEN _draw_thompson(self, x)
    ELSE [self |-> self, rets |-> {Raise("ValueError: Unknown draw type")}]

_probability_ucb(self, x, a) ==
    LET r == _draw_ucb(self, x)
    IN  IF r.kind = "raise" THEN r
        ELSE IF r.num = a THEN ReturnFloat(1) ELSE ReturnFloat(0)

\* the sum np.dot(x, self.w) + self._bound(x) is computed and dropped
_probability_thompson(self, x, a) ==
    LET c == _update_cholesky(self)
    IN  [self |-> c.self, ret |-> IF c.ret.kind = "raise" THEN c.ret ELSE ReturnNone]

probability(self, x, a) ==
    IF self.draw_type = TYPE_UCB THEN [self |-> self, ret |-> _probability_ucb(self, x, a)]
    ELSE IF self.draw_type = TYPE_THOMPSON THEN _probability_thompson(self, x, a)
    ELSE [self |-> self, ret |-> Raise("ValueError: Unknown draw type")]

(* --------------------------------------------------------------- deep copy *)
\* np.copy(h[addr]): a new buffer with the same contents
np_copy(addr, h) == [addr |-> Len(h) + 1, heap |-> Append(h, h[addr])]

\* __deepcopy handing self.A_inv and self.recompute on without np.copy
__deepcopy_aliasing(p, nargs, h) ==
    LET w == np_copy(p.w, h)
        b == np_copy(p.b, w.heap)
        A == np_copy(p.A, b.heap)
        cho == np_copy(p.cho, A.heap)
        new == StatisticalPolicy(p.k, p.d, p.l2, p.alpha, w.addr, b.addr, A.addr,
                                 p.A_inv, cho.addr, p.recompute, p.draw_type, cho.heap)
    IN  IF nargs # 0 THEN [ok |-> FALSE, out |-> p, heap |-> h]
        ELSE [ok |-> TRUE, out |-> new.out, heap |-> new.heap]

\* __deepcopy(self), installed as __deepcopy__: it takes no argument besides
\* self, so a call that passes nargs > 0 more (copy.deepcopy passes its memo)
\* is a TypeError
__deepcopy(p, nargs, h) ==
    LET w == np_copy(p.w, h)
        b == np_copy(p.b, w.heap)
        A == np_copy(p.A, b.heap)
        A_inv == np_copy(p.A_inv, A.heap)
        cho == np_copy(p.cho, A_inv.heap)
        recompute == np_copy(p.recompute, cho.heap)
        new == StatisticalPolicy(p.k, p.d, p.l2, p.alpha, w.addr, b.addr, A.addr,
                                 A_inv.addr, cho.addr, recompute.addr, p.draw_type,
                                 recompute.heap)
    IN  IF nargs # 0 THEN [ok |-> FALSE, out |-> p, heap |-> h]
        ELSE [ok |-> TRUE, out |-> new.out, heap |-> new.heap]

(* ------------------------------------------------------------ the machine *)
Call(op, i, a, x, r, rep, ret) ==
    [op |-> op, i |-> i, a |-> a, x |-> x, r |-> r, rep |-> rep,
     kind |-> ret.kind, exc |-> ret.exc, num |-> ret.num]

\* the builds that differ on update(x, a, r): with and without bounds checks
\* when a is out of range for the rows of b, one otherwise
Builds(p, a) == IF a \in Idx(p.d) THEN {FALSE} ELSE BOOLEAN

\* a policy built with the default state, for each choice of the arguments
InitWith(shapes, l2s, alphas, types) ==
    \E shape \in shapes, l2 \in l2s, alpha \in alphas, draw_type \in types :
        LET new == StatisticalPolicy(shape[1], shape[2], l2, alpha, None, None, None,
                                     None, None, None, draw_type, <<>>)
        IN  /\ policies = <<new.out>>
            /\ heap = new.heap
            /\ nupdates = 0
            /\ oob = FALSE
            /\ last = Call("construct", 1, -1, <<>>, Zero, FALSE, ReturnPolicy)

Init == InitWith(Shapes, L2Vals, AlphaVals, DrawTypes)

Update(i) ==
    /\ nupdates < MaxUpdates
    /\ \E x \in Contexts(policies[i].d), a \in Idx(policies[i].k), r \in Rewards :
       \E boundscheck \in Builds(policies[i], a) :
          LET res == update(Self(policies[i], heap), x, a, r, boundscheck)
          IN  /\ heap' = Stored(policies[i], res.self, heap)
              /\ oob' = (oob \/ res.oob)
              /\ last' = Call("update", i, a, x, r, FALSE, res.ret)
    /\ nupdates' = nupdates + 1
    /\ UNCHANGED policies

Draw(i) ==
    /\ \E x \in Contexts(policies[i].d) :
          LET res == draw(Self(policies[i], heap), x)
          IN  /\ heap' = Stored(policies[i], res.self, heap)
              /\ \E ret \in res.rets :
                    last' = Call("draw", i, -1, x, Zero,
                                 last.op = "draw" /\ last.i = i /\ last.x = x, ret)
    /\ UNCHANGED <<policies, nupdates, oob>>

Probability(i) ==
    /\ \E x \in Contexts(policies[i].d), a \in Idx(policies[i].k) :
          LET res == probability(Self(policies[i], heap), x, a)
          IN  /\ heap' = Stored(policies[i], res.self, heap)
              /\ last' = Call("probability", i, a, x, Zero, FALSE, res.ret)
    /\ UNCHANGED <<policies, nupdates, oob>>

Deepcopy(i) ==
    /\ Len(policies) < MaxPolicies
    /\ \E nargs \in {0, 1} :
          LET res == __deepcopy(policies[i], nargs, heap)
          IN  /\ policies' = IF res.ok THEN Append(policies, res.out) ELSE policies
              /\ heap' = res.heap
              /\ last' = Call("deepcopy", i, -1, <<>>, Zero, FALSE,
                              IF res.ok THEN ReturnPolicy ELSE Raise("TypeError"))
    /\ UNCHANGED <<nupdates, oob>>

DoUpdate == \E i \in DOMAIN policies : Update(i)
DoDraw == \E i \in DOMAIN policies : Draw(i)
DoProbability == \E i \in DOMAIN policies : Probability(i)
DoDeepcopy == \E i \in DOMAIN policies : Deepcopy(i)

Next == DoUpdate \/ DoDraw \/ DoProbability

NextCopy == DoUpdate \/ DoDraw \/ DoProbability \/ DoDeepcopy

Spec == Init /\ [][Next]_vars

\* the policies with as many arms as features, the shapes update completes on
InitSquare == Init /\ policies[1].k = policies[1].d

SpecSquare == InitSquare /\ [][Next]_vars

\* UCB policies of every shape
InitUcb == InitWith(Shapes, L2Vals, AlphaVals, {TYPE_UCB})

SpecUcb == InitUcb /\ [][Next]_vars

\* the policies that are deep-copied
CopyShapes == {<<1, 1>>}
InitCopy == InitWith(CopyShapes, {RInt(2)}, AlphaVals, {TYPE_UCB, TYPE_THOMPSON})

SpecCopy == InitCopy /\ [][NextCopy]_vars

(* ------------------------------------------------------------ properties *)
Pols == DOMAIN policies
\* instance i as its methods see it
P(i) == Self(policies[i], heap)
\* instance i after the step
PN(i) == Self(policies'[i], heap')
Thompson(i) == policies[i].draw_type = TYPE_THOMPSON
Ucb(i) == policies[i].draw_type = TYPE_UCB
Square(i) == policies[i].k = policies[i].d

\* F holds the Cholesky factor of M: lower triangular, positive diagonal,
\* F @ F.T = M
IsCholeskyOf(F, M, d) ==
    /\ \A i \in Idx(d), j \in Idx(d) : i < j => (F.C[i][j] = Zero \/ F.D[j] = Zero)
    /\ \A j \in Idx(d) : RLt(Zero, F.C[j][j]) /\ RLt(Zero, F.D[j])
    /\ FactorSquare(F, d) = M

ChoValid(self, a) == IsCholeskyOf(self.cho[a], self.A_inv[a], self.d)

\* C1: in every reachable state of a policy built with the default state, an
\* arm whose recompute flag is false has cho[a] = cholesky(A_inv[a]).
C1_ChoNeverStale ==
    \A i \in Pols : \A a \in Idx(policies[i].k) :
        ~P(i).recompute[a] => ChoValid(P(i), a)

\* C2: for a Thompson policy, update(x, a, r) leaves recompute[a] true, and a
\* Thompson draw or probability call leaves recompute false for every arm with
\* cho[a] the Cholesky factor of A_inv[a] for each arm that was marked.
C2_ThompsonCache ==
    [][/\ (last'.op = "update" /\ Thompson(last'.i))
            => PN(last'.i).recompute[last'.a]
       /\ (last'.op \in {"draw", "probability"} /\ Thompson(last'.i))
            => \A a \in Idx(policies[last'.i].k) :
                  /\ ~PN(last'.i).recompute[a]
                  /\ P(last'.i).recompute[a] => ChoValid(PN(last'.i), a)]_vars

\* C3: after any sequence of update calls, A[a] @ A_inv[a] = I for every arm.
C3_InverseMaintained ==
    \A i \in Pols : \A a \in Idx(policies[i].k) :
        MatMul(P(i).A[a], P(i).A_inv[a], policies[i].d) = Identity(policies[i].d)

\* w[a, :] and b[a, :] are d-vectors
ArmRows(self, a) ==
    /\ a \in DOMAIN self.w /\ DOMAIN self.w[a] = Idx(self.d)
    /\ a \in DOMAIN self.b /\ DOMAIN self.b[a] = Idx(self.d)

RidgeSolved(self, a) == self.w[a] = MatVec(self.A_inv[a], self.b[a], self.d)

\* C4: after update(x, a, r) the arm's weights are A_inv[a] @ b[a], and in
\* every state every arm that has a weight vector has w[a] = A_inv[a] @ b[a].
C4_RidgeSolution ==
    /\ \A i \in Pols : \A a \in Idx(policies[i].k) :
          ArmRows(P(i), a) => RidgeSolved(P(i), a)
    /\ last.op = "update" => ArmRows(P(last.i), last.a) /\ RidgeSolved(P(last.i), last.a)

\* C5: for a UCB policy a probability(x, a) call returns 1.0 when draw(x)
\* returns a and 0.0 otherwise, and for each context exactly one arm has
\* probability 1.0.
C5_UcbPointMass ==
    /\ (last.op = "probability" /\ Ucb(last.i))
          => /\ last.kind = "float"
             /\ last.num = (IF draw(P(last.i), last.x).rets = {ReturnAction(last.a)}
                            THEN 1 ELSE 0)
    /\ (last.op = "probability" /\ Ucb(last.i))
          => Cardinality({a \in Idx(policies[last.i].k) :
                probability(P(last.i), last.x, a).ret = ReturnFloat(1)}) = 1

\* C6: for UCB and Thompson policies a probability(x, a) call that returns
\* returns a number in [0, 1]: it never completes without a value.
C6_ProbabilityIsNumber ==
    (last.op = "probability" /\ (Ucb(last.i) \/ Thompson(last.i)))
        => /\ last.kind # "none"
           /\ last.kind = "float" => last.num \in {0, 1}

\* the rows of the (d, k) arrays w and b other than row a are unchanged
OtherRowsKept(old, new, a) ==
    /\ DOMAIN new = DOMAIN old
    /\ \A j \in DOMAIN old : j # a => new[j] = old[j]

\* C7: for any k and d, update(x, a, r) completes and changes only A[a],
\* A_inv[a], b[a], w[a] and recompute[a].
C7_UpdateFrame ==
    [][last'.op = "update" =>
         LET old == P(last'.i)
             new == PN(last'.i)
             a == last'.a
         IN  /\ last'.kind = "none"
             /\ policies' = policies
             /\ ~oob'
             /\ new.cho = old.cho
             /\ \A c \in Idx(old.k) : c # a =>
                   /\ new.A[c] = old.A[c]
                   /\ new.A_inv[c] = old.A_inv[c]
                   /\ new.recompute[c] = old.recompute[c]
             /\ OtherRowsKept(old.w, new.w, a)
             /\ OtherRowsKept(old.b, new.b, a)]_vars

C9_DrawTypeChecked ==
    /\ \A i \in Pols : Ucb(i) \/ Thompson(i)
    /\ last.exc # "ValueError: Unknown draw type"

\* C10: a deep copy equals its original field for field and holds buffers of
\* its own, and a call on one instance changes no field of another.
C10_DeepCopyIndependent ==
    [][/\ (last'.op = "deepcopy" /\ last'.kind = "policy") =>
            LET n == Len(policies')
            IN  /\ n = Len(policies) + 1
                /\ Self(policies'[n], heap') = P(last'.i)
                /\ \A j \in Pols : policies'[j] = policies[j] /\ PN(j) = P(j)
                /\ Cardinality(Buffers(policies'[n])) = 6
                /\ \A j \in Pols : Buffers(policies'[n]) \cap Buffers(policies[j]) = {}
       /\ last'.op \in {"update", "draw", "probability"} =>
            \A j \in Pols : j # last'.i => PN(j) = P(j)]_vars

C10_Witness ==
    /\ Len(policies) = 2
    /\ last.op = "update" /\ last.kind = "none"
    /\ P(1) # P(2)
    /\ \E a \in Idx(policies[1].k) : P(1).recompute[a] # P(2).recompute[a]

====
